---- MODULE Spec2Model ----
(***************************************************************************)
(* Model of the movie catalog: the record store of                         *)
(* storage/movie_storage_sql.py (one SQLite table `movies`), the lookup    *)
(* client of data/movie_api.py and the add/delete/update commands of       *)
(* main.py.                                                                *)
(*                                                                         *)
(* Titles are sequences of character codes, so that Python's str.lower()   *)
(* and SQLite's LOWER() are computed, character by character.  A stored    *)
(* value carries its SQLite storage class (k) and, when numeric, its       *)
(* value in tenths (v), so that the column affinity of CREATE TABLE is     *)
(* computed as well.                                                       *)
(***************************************************************************)
EXTENDS Integers, Sequences, FiniteSets

VARIABLES movies,   \* rows of table movies: [id, title, year, rating, poster]
          seq,      \* sqlite_sequence of the AUTOINCREMENT key
          call,     \* the last call: [op, title, year, rating, poster, fault]
          ret,      \* what the last call returned: "True", "False", "None"
          exc,      \* the exception the last call let escape, or "none"
          old,      \* the rows of the table when the last call started
          listing,  \* the mapping the last get_movies() returned
          stats,    \* what the last stats_of_movies() printed
          prev      \* title of the call before the last, when it was a delete

vars == <<movies, seq, call, ret, exc, old, listing, stats, prev>>

----------------------------------------------------------------------------
\* Bounds of the model

MaxId == 2          \* rows inserted in one behaviour

----------------------------------------------------------------------------
\* Values

\* "Gladiator", "gladiator", "\'El" and "\'el", as character codes
Gladiator == <<71, 108, 97, 100, 105, 97, 116, 111, 114>>
gladiator == <<103, 108, 97, 100, 105, 97, 116, 111, 114>>
El == <<201, 108>>
el == <<233, 108>>

Titles == {Gladiator, gladiator, El, el}

NoTitle == << >>

Integer(n) == [k |-> "int", v |-> 10 * n]
Float(tenths) == [k |-> "real", v |-> tenths]
NumText(tenths) == [k |-> "numtext", v |-> tenths]
NA == [k |-> "text", v |-> 0]
None == [k |-> "null", v |-> 0]

IsNumber(x) == x.k \in {"int", "real"}

\* Python's == on two values
PyEq(a, b) == IF IsNumber(a) /\ IsNumber(b) THEN a.v = b.v ELSE a = b

Ratings == {Float(50), Float(85)}

\* (year, rating, poster) of the movies added
Details == {<<Integer(2000), Float(85), "http://...">>, <<Integer(2001), Float(50), "x">>,
            <<None, Float(50), "x">>}

Faults == {"SQLAlchemyError", "Exception"}

----------------------------------------------------------------------------
\* Case folding

\* str.lower() on one character (ASCII and Latin-1 capitals)
PyLowerChar(c) ==
    IF (c >= 65 /\ c <= 90) \/ (c >= 192 /\ c <= 222 /\ c # 215)
    THEN c + 32 ELSE c

\* SQLite's built-in LOWER() on one character (ASCII capitals only)
SqlLowerChar(c) == IF c >= 65 /\ c <= 90 THEN c + 32 ELSE c

PyLower(s) == [i \in 1..Len(s) |-> PyLowerChar(s[i])]

SqlLower(s) == [i \in 1..Len(s) |-> SqlLowerChar(s[i])]

----------------------------------------------------------------------------
\* Table movies

\* year declared TEXT: numbers become text
YearAffinityText(x) == IF IsNumber(x) THEN [k |-> "numtext", v |-> x.v] ELSE x

\* year INTEGER: numeric text and whole reals become integers
YearAffinity(x) ==
    CASE x.k \in {"numtext", "real"} ->
             [k |-> IF x.v % 10 = 0 THEN "int" ELSE "real", v |-> x.v]
      [] OTHER -> x

\* rating REAL: numeric text and integers become reals
RatingAffinity(x) ==
    CASE x.k \in {"numtext", "int"} -> [k |-> "real", v |-> x.v]
      [] OTHER -> x

\* title declared without UNIQUE
IntegrityViolationNotNull(t, y, r, p) == y = None \/ r = None

\* title TEXT UNIQUE (BINARY collation) and the NOT NULL columns
IntegrityViolation(t, y, r, p) ==
    \/ \E m \in movies : m.title = t
    \/ y = None
    \/ r = None

\* the statement without its WHERE clause
MatchingAll(rows, t) == rows

\* WHERE LOWER(title) = :title, with :title the argument lowered by Python
Matching(rows, t) == {m \in rows : SqlLower(m.title) = PyLower(t)}

\* the last row scanned with title t (a later key overwrites in the dict)
RowOf(rows, t) ==
    CHOOSE m \in rows : m.title = t /\ \A n \in rows : n.title = t => n.id <= m.id

\* get_movies(): {title: {year, rating, poster}}
get_movies(rows) ==
    [t \in {m.title : m \in rows} |->
        [year |-> RowOf(rows, t).year, rating |-> RowOf(rows, t).rating,
         poster |-> RowOf(rows, t).poster]]

NoListing == << >>

Printed(msg) == [msg |-> msg]

NoStats == Printed("")

RatingsOf(rows) == {m.rating.v : m \in rows}

Min(S) == CHOOSE x \in S : \A y \in S : x <= y

Max(S) == CHOOSE x \in S : \A y \in S : x >= y

RECURSIVE SumRatings(_)
SumRatings(rows) ==
    IF rows = {} THEN 0
    ELSE LET m == CHOOSE m \in rows : TRUE
         IN m.rating.v + SumRatings(rows \ {m})

Call(op, t, y, r, p, f) ==
    [op |-> op, title |-> t, year |-> y, rating |-> r, poster |-> p, fault |-> f]

Returns(c, value, raised) ==
    /\ call' = c
    /\ ret' = value
    /\ exc' = raised
    /\ old' = movies
    /\ prev' = IF call.op = "delete" THEN call.title ELSE NoTitle

----------------------------------------------------------------------------
\* Operations of the store; f is the fault the statement meets, or "none"

add_movie(t, y, r, p, f) ==
    /\ Returns(Call("add", t, y, r, p, f),
               IF f = "none" /\ ~IntegrityViolation(t, y, r, p) THEN "True" ELSE "False",
               "none")
    /\ IF f = "none" /\ ~IntegrityViolation(t, y, r, p)
       THEN /\ seq < MaxId
            /\ movies' = movies \cup
                 {[id |-> seq + 1, title |-> t, year |-> YearAffinity(y),
                   rating |-> RatingAffinity(r), poster |-> p]}
            /\ seq' = seq + 1
       ELSE UNCHANGED <<movies, seq>>
    /\ listing' = NoListing
    /\ stats' = NoStats

\* delete that reports success whenever the statement ran
delete_movie_ran(t, f) ==
    /\ Returns(Call("delete", t, None, None, "", f),
               IF f = "none" THEN "True" ELSE "False", "none")
    /\ movies' = IF f = "none" THEN movies \ {m \in movies : SqlLower(m.title) = PyLower(t)}
                 ELSE movies
    /\ listing' = NoListing
    /\ stats' = NoStats
    /\ UNCHANGED seq

delete_movie(t, f) ==
    /\ Returns(Call("delete", t, None, None, "", f),
               IF f = "none" /\ Matching(movies, t) # {} THEN "True" ELSE "False",
               "none")
    /\ movies' = IF f = "none" THEN movies \ Matching(movies, t) ELSE movies
    /\ listing' = NoListing
    /\ stats' = NoStats
    /\ UNCHANGED seq

update_movie(t, r, f) ==
    /\ IF r = None
       THEN Returns(Call("update", t, None, r, "", "none"), "False", "none")
       ELSE Returns(Call("update", t, None, r, "", f),
                    CASE f = "Exception" -> "None"
                      [] f = "SQLAlchemyError" -> "False"
                      [] OTHER -> IF Matching(movies, t) # {} THEN "True" ELSE "False",
                    IF f = "Exception" THEN "Exception" ELSE "none")
    /\ movies' = IF r # None /\ f = "none"
                 THEN {IF m \in Matching(movies, t)
                       THEN [m EXCEPT !.rating = RatingAffinity(r)] ELSE m : m \in movies}
                 ELSE movies
    /\ listing' = NoListing
    /\ stats' = NoStats
    /\ UNCHANGED seq

list_movies ==
    /\ Returns(Call("list", NoTitle, None, None, "", "none"), "None", "none")
    /\ listing' = get_movies(movies)
    /\ stats' = NoStats
    /\ UNCHANGED <<movies, seq>>

\* stats that counts the distinct ratings
stats_of_distinct ==
    /\ Returns(Call("stats", NoTitle, None, None, "", "none"), "None", "none")
    /\ stats' = IF movies = {} THEN Printed("No movies in database.")
                ELSE [count |-> Cardinality(RatingsOf(movies)),
                      min_r |-> Min(RatingsOf(movies)), max_r |-> Max(RatingsOf(movies)),
                      avg_r |-> <<SumRatings(movies), Cardinality(movies)>>]
    /\ listing' = NoListing
    /\ UNCHANGED <<movies, seq>>

stats_of_movies ==
    /\ Returns(Call("stats", NoTitle, None, None, "", "none"), "None",
               IF \E m \in movies : ~IsNumber(m.rating) THEN "TypeError" ELSE "none")
    /\ stats' = IF movies = {} THEN Printed("No movies in database.")
                ELSE IF \E m \in movies : ~IsNumber(m.rating) THEN NoStats
                ELSE [count |-> Cardinality(movies),
                      min_r |-> Min(RatingsOf(movies)), max_r |-> Max(RatingsOf(movies)),
                      avg_r |-> <<SumRatings(movies), Cardinality(movies)>>]
    /\ listing' = NoListing
    /\ UNCHANGED <<movies, seq>>

----------------------------------------------------------------------------
\* The store, called directly, under normal conditions

Init ==
    /\ movies = {}
    /\ seq = 0
    /\ call = Call("init", NoTitle, None, None, "", "none")
    /\ ret = "None"
    /\ exc = "none"
    /\ old = {}
    /\ listing = NoListing
    /\ stats = NoStats
    /\ prev = NoTitle

AddMovie == \E t \in Titles, d \in Details : add_movie(t, d[1], d[2], d[3], "none")

DeleteMovie == \E t \in Titles : delete_movie(t, "none")

UpdateMovie == \E t \in Titles, r \in Ratings \cup {None} : update_movie(t, r, "none")

ListMovies == list_movies

StatsOfMovies == stats_of_movies

Next == AddMovie \/ DeleteMovie \/ UpdateMovie \/ ListMovies \/ StatsOfMovies

Spec == Init /\ [][Next]_vars

----------------------------------------------------------------------------
\* The store when a statement may meet a persistence fault

AddMovieFault == \E t \in Titles, d \in Details, f \in Faults \cup {"none"} :
                     add_movie(t, d[1], d[2], d[3], f)

DeleteMovieFault == \E t \in Titles, f \in Faults \cup {"none"} : delete_movie(t, f)

UpdateMovieFault == \E t \in Titles, r \in Ratings \cup {None}, f \in Faults \cup {"none"} :
                        update_movie(t, r, f)

NextFault == AddMovieFault \/ DeleteMovieFault \/ UpdateMovieFault

SpecFault == Init /\ [][NextFault]_vars

----------------------------------------------------------------------------
\* The lookup client and the commands of the dispatcher

\* responses of the remote service: the JSON object and the keys it has
NotFound ==
    [Response |-> "False", keys |-> {}, Title |-> NoTitle, Year |-> None,
     imdbRating |-> None, Poster |-> ""]

Found(keys, t, y, r, p) ==
    [Response |-> "True", keys |-> keys, Title |-> t, Year |-> y,
     imdbRating |-> r, Poster |-> p]

ApiDetails == {<<NumText(20000), NumText(85), "http://...">>, <<NA, NA, "N/A">>,
               <<None, None, "">>}

Responses ==
    {NotFound, Found({}, NoTitle, None, None, "")}
    \cup {Found({"Title", "Year", "imdbRating", "Poster"}, t, d[1], d[2], d[3]) :
              t \in Titles, d \in ApiDetails}

\* fetch_movie_data(title), data being the response to the request
fetch_movie_data(title, data) ==
    IF data.Response = "False"
    THEN [found |-> FALSE, year |-> None, rating |-> None, poster |-> "", title |-> NoTitle]
    ELSE [found |-> TRUE,
          year |-> IF "Year" \in data.keys THEN data.Year ELSE NA,
          rating |-> IF "imdbRating" \in data.keys THEN data.imdbRating ELSE NA,
          poster |-> IF "Poster" \in data.keys THEN data.Poster ELSE "N/A",
          title |-> IF "Title" \in data.keys THEN data.Title ELSE title]

\* a command that returns without calling the store
Skip(op, t) ==
    /\ Returns(Call(op, t, None, None, "", "none"), "None", "none")
    /\ listing' = NoListing
    /\ stats' = NoStats
    /\ UNCHANGED <<movies, seq>>

command_add_movie(title_input, data) ==
    LET lower_titles == {PyLower(t) : t \in DOMAIN get_movies(movies)}
        result == fetch_movie_data(title_input, data)
    IN  IF title_input = NoTitle \/ PyLower(title_input) \in lower_titles \/ ~result.found
        THEN Skip("command_add", title_input)
        ELSE add_movie(result.title,
                       IF result.year = None THEN Integer(0) ELSE result.year,
                       IF result.rating = None THEN Float(0) ELSE result.rating,
                       result.poster, "none")

command_delete_movie(title) ==
    IF title = NoTitle THEN Skip("command_delete", title) ELSE delete_movie(title, "none")

command_update_movie(title, new_rating) ==
    IF title = NoTitle THEN Skip("command_update", title)
    ELSE update_movie(title, new_rating, "none")

\* main() dispatches commands until an exception escapes
Running == exc = "none"

CommandAddMovie == \E t \in Titles \cup {NoTitle}, data \in Responses :
                       Running /\ command_add_movie(t, data)

CommandDeleteMovie == \E t \in Titles \cup {NoTitle} : Running /\ command_delete_movie(t)

CommandUpdateMovie == \E t \in Titles \cup {NoTitle}, r \in Ratings :
                          Running /\ command_update_movie(t, r)

CommandStatsOfMovies == Running /\ stats_of_movies

NextCLI == CommandAddMovie \/ CommandDeleteMovie \/ CommandUpdateMovie
           \/ CommandStatsOfMovies

SpecCLI == Init /\ [][NextCLI]_vars

----------------------------------------------------------------------------
\* Properties

EqIgnoreCase(a, b) == PyLower(a) = PyLower(b)

TitlesOf(rows) == {m.title : m \in rows}

StatsFields == {"count", "min_r", "max_r", "avg_r"}

\* C1: no two stored records have the same title, and an add whose title
\* equals a stored title returns false and leaves the number of records
\* unchanged.
C1_TitlesUnique ==
    /\ \A m, n \in movies : m.title = n.title => m = n
    /\ (call.op = "add" /\ call.title \in TitlesOf(old))
           => (ret = "False" /\ Cardinality(movies) = Cardinality(old))

C1_Witness ==
    /\ call.op = "add" /\ call.year # None
    /\ call.title \in TitlesOf(old)
    /\ ret = "False"
    /\ Cardinality(movies) = 2

\* C2: when "Gladiator" is stored, a store add of "gladiator" returns false,
\* and list_all afterwards has exactly one entry for that movie, with the
\* year, rating and poster of the first add.
C2_CaseVariantRejected ==
    (call.op = "add" /\ call.title = gladiator /\ Gladiator \in TitlesOf(old))
        => /\ ret = "False"
           /\ {t \in DOMAIN get_movies(movies) : EqIgnoreCase(t, Gladiator)} = {Gladiator}
           /\ get_movies(movies)[Gladiator] = get_movies(old)[Gladiator]

\* C3: one call of delete removes at most one record, and every record whose
\* title does not match the argument ignoring case is still present with the
\* same fields.
C3_DeleteAtMostOne ==
    call.op = "delete"
        => /\ Cardinality(movies) \in {Cardinality(old), Cardinality(old) - 1}
           /\ \A m \in old : ~EqIgnoreCase(m.title, call.title) => m \in movies

\* C4: update_rating with a title that equals a stored title ignoring case
\* returns true, sets the rating of that record, and changes nothing else:
\* title casing, year and poster stay, the set of titles stays, and every
\* other record keeps all of its fields.
C4_UpdateRatingOnly ==
    (call.op = "update" /\ call.rating # None
     /\ \E m \in old : EqIgnoreCase(m.title, call.title))
        => /\ ret = "True"
           /\ TitlesOf(movies) = TitlesOf(old)
           /\ Cardinality(movies) = Cardinality(old)
           /\ \A m \in old : \E n \in movies :
                  /\ n.id = m.id /\ n.title = m.title
                  /\ n.year = m.year /\ n.poster = m.poster
                  /\ IF EqIgnoreCase(m.title, call.title)
                     THEN PyEq(n.rating, call.rating)
                     ELSE n.rating = m.rating

C6_DeleteIdempotent ==
    (call.op = "delete" /\ prev = call.title) => (ret = "False" /\ movies = old)

C6_Witness ==
    /\ call.op = "delete" /\ prev = call.title
    /\ ret = "False"
    /\ movies # {}
    /\ seq > Cardinality(movies)

\* C7: when no stored title equals the argument ignoring case, delete and
\* update_rating both return false and leave the store content as it was.
C7_NotFound ==
    (call.op \in {"delete", "update"}
     /\ \A m \in old : ~EqIgnoreCase(m.title, call.title))
        => (ret = "False" /\ exc = "none" /\ movies = old)

C7_Witness ==
    /\ call.op = "update" /\ call.rating # None
    /\ old # {}
    /\ \A m \in old : ~EqIgnoreCase(m.title, call.title)
    /\ ret = "False"

\* C8: a persistence fault met while add, delete or update_rating executes
\* its statement never escapes: the operation returns false and the store
\* content is the same as before the call, for every kind of fault.
C8_FaultNeverEscapes ==
    call.fault # "none" => (exc = "none" /\ ret = "False" /\ movies = old)

C10_NoCaseVariants ==
    \A m, n \in movies : EqIgnoreCase(m.title, n.title) => m = n

====
